---- MODULE Spec2Model ----
(***************************************************************************)
(* Model of the Transcipt contract (src/lib.rs): the role registry, the    *)
(* class roster store, the grade ledger and the access-grant directory,    *)
(* with one action per #[ink(message)].  A message is a function of the    *)
(* storage struct, the caller and the arguments; it is modelled as an      *)
(* operator from (storage, caller, arguments) to (storage', outcome) that  *)
(* follows the Rust statement by statement, and the action of the message  *)
(* installs storage' and records the call and its outcome.                 *)
(*                                                                         *)
(* Vec<T> is a sequence.  Mapping<K, V> is a total function to Option<V>,  *)
(* an absent key being None.  Option<V> is a sequence of length at most    *)
(* one: << >> is None and <<v>> is Some(v).  unwrap() of None panics; a    *)
(* panic is the outcome "Panic", and since every unwrap() of the contract  *)
(* precedes the first write of its message, a panicking call writes        *)
(* nothing.  A message that returns Err keeps whatever it wrote before     *)
(* returning, as it does when called on the struct in the unit tests: no   *)
(* rollback by the host is assumed.                                        *)
(*                                                                         *)
(* last, result and pre record the message last sent, what it returned     *)
(* and the storage it was sent in, so that the effect of one message is a  *)
(* property of one state.                                                  *)
(*                                                                         *)
(* The repository holds a second contract, the Erc20 token of              *)
(* src/libfull.rs.  The two contracts share no storage: Spec runs the      *)
(* Transcipt messages and SpecToken the token messages, each leaving the   *)
(* other contract as constructed.  Balance is u128; the model keeps the    *)
(* arithmetic of an unsigned integer of BalanceBits bits.  Whether an      *)
(* overflowing + or - panics or wraps is a property of the build           *)
(* (overflow-checks), so SpecToken runs both builds.  A panic traps the    *)
(* call: whatever the message wrote before it is discarded.                *)
(***************************************************************************)
EXTENDS Naturals, Sequences, FiniteSets, TLC

\* ------------------------------------------------------------------ bounds
\* Number of messages sent in one run.
MaxSteps == 5
\* Longest student list handed to add_classes.
MaxRoster == 2
\* Width of Balance in the token model, in bits.
BalanceBits == 3
\* Largest value handed to a token message.
MaxAmount == 2
\* Largest initial supply handed to Erc20::new.
MaxSupply == 2
\* Number of token messages sent in one run.
MaxTokenSteps == 3

Accounts == {"alice", "bob", "charlie"}
ClassNames == {"CS50", "CS51"}
Scores == {2, 3}

\* The student lists a caller can hand to add_classes (repetitions included).
StudentLists == UNION {[1..n -> Accounts] : n \in 0..MaxRoster}

VARIABLES
    accessstudents,  \* Mapping<AccountId, Vec<AccountId>>
    students,        \* Vec<AccountId>
    teachers,        \* Vec<AccountId>
    admins,          \* Vec<AccountId>
    class_list,      \* Vec<String>
    grades,          \* Mapping<(AccountId, String), Vec<u8>>
    classes,         \* Mapping<String, (AccountId, Vec<AccountId>)>
    last,            \* the message last sent: its name, caller and arguments
    result,          \* what that message returned
    pre,             \* the storage that message was sent in
    steps,           \* how many messages were sent
    erc20,           \* the storage struct of the Erc20 contract
    overflow_checks  \* whether the build panics on arithmetic overflow

stores == <<accessstudents, students, teachers, admins, class_list, grades, classes>>
vars == <<accessstudents, students, teachers, admins, class_list, grades, classes,
          last, result, pre, steps, erc20, overflow_checks>>

\* --------------------------------------------------------- Vec and Option
None == << >>
Some(v) == <<v>>
IsSome(o) == Len(o) = 1
Unwrap(o) == o[1]
\* Option::unwrap_or_default for a Vec value
UnwrapOrDefault(o) == IF IsSome(o) THEN o[1] ELSE << >>

\* Vec::contains
Contains(v, x) == \E i \in 1..Len(v) : v[i] = x
\* Iterator::position: the first index holding x, 0 when there is none
Position(v, x) == IF Contains(v, x)
                  THEN CHOOSE i \in 1..Len(v) : v[i] = x /\ \A j \in 1..(i - 1) : v[j] # x
                  ELSE 0
\* Vec::swap_remove in place of Vec::remove: the last element takes the
\* place of the removed one.
RemoveAt_Swap(v, i) ==
    [j \in 1..(Len(v) - 1) |-> IF j = i THEN v[Len(v)] ELSE v[j]]

\* Vec::remove(index)
RemoveAt(v, i) == [j \in 1..(Len(v) - 1) |-> IF j < i THEN v[j] ELSE v[j + 1]]
\* if let Some(index) = v.iter().position(|x| *x == e) { v.remove(index); }
RemoveFirst(v, x) == IF Contains(v, x) THEN RemoveAt(v, Position(v, x)) ELSE v

\* ------------------------------------------------------------ the storage
\* The storage struct as one value.
St == [accessstudents |-> accessstudents, students |-> students, teachers |-> teachers,
       admins |-> admins, class_list |-> class_list, grades |-> grades, classes |-> classes]

\* A message's outcome: the storage it leaves, the Result it returns (or
\* "Panic"), and the value carried by Ok (access_grades only).
Ret(S, r) == [st |-> S, res |-> r, val |-> << >>]
RetVal(S, v) == [st |-> S, res |-> "Ok", val |-> v]

\* Transcipt::new, with the deployer as caller.
New(caller) == [accessstudents |-> [a \in Accounts |-> None],
                students |-> << >>,
                teachers |-> << >>,
                admins |-> <<caller>>,
                class_list |-> << >>,
                grades |-> [k \in Accounts \X ClassNames |-> None],
                classes |-> [c \in ClassNames |-> None]]

\* ------------------------------------------------------------ the messages
add_teacher(S, caller, teacher_id) ==
    IF Contains(S.admins, caller)
    THEN IF ~Contains(S.teachers, teacher_id)
         THEN Ret([S EXCEPT !.teachers = Append(@, teacher_id)], "Ok")
         ELSE Ret(S, "InvalidInput")
    ELSE Ret(S, "AccessNotAllowed")


\* add_student that seeds the grant entry only when there is none.
add_student_KeepEntry(S, caller, student_id) ==
    IF Contains(S.admins, caller)
    THEN IF ~Contains(S.students, student_id)
         THEN Ret([S EXCEPT !.students = Append(@, student_id),
                            !.accessstudents[student_id] =
                                IF IsSome(@) THEN @ ELSE Some(<<student_id>>)], "Ok")
         ELSE Ret(S, "InvalidInput")
    ELSE Ret(S, "AccessNotAllowed")

\* add_student that registers the student without seeding the grant entry.
add_student_NoSeed(S, caller, student_id) ==
    IF Contains(S.admins, caller)
    THEN IF ~Contains(S.students, student_id)
         THEN Ret([S EXCEPT !.students = Append(@, student_id)], "Ok")
         ELSE Ret(S, "InvalidInput")
    ELSE Ret(S, "AccessNotAllowed")


add_student(S, caller, student_id) ==
    IF Contains(S.admins, caller)
    THEN IF ~Contains(S.students, student_id)
         THEN Ret([S EXCEPT !.students = Append(@, student_id),
                            !.accessstudents[student_id] = Some(<<student_id>>)], "Ok")
         ELSE Ret(S, "InvalidInput")
    ELSE Ret(S, "AccessNotAllowed")

add_admins(S, caller, admin_id) ==
    IF Contains(S.admins, caller)
    THEN IF ~Contains(S.admins, admin_id)
         THEN Ret([S EXCEPT !.admins = Append(@, admin_id)], "Ok")
         ELSE Ret(S, "InvalidInput")
    ELSE Ret(S, "AccessNotAllowed")

\* add_classes that does not test the name against the class list.
add_classes_AnyName(S, caller, class_name, teacher_id, student_ids) ==
    IF Contains(S.admins, caller)
    THEN IF /\ Contains(S.teachers, teacher_id)
            /\ \A i \in 1..Len(student_ids) : Contains(S.students, student_ids[i])
         THEN Ret([S EXCEPT !.classes[class_name] =
                                Some([teacher |-> teacher_id, students |-> student_ids]),
                            !.class_list = Append(@, class_name)], "Ok")
         ELSE Ret(S, "InvalidInput")
    ELSE Ret(S, "AccessNotAllowed")


add_classes(S, caller, class_name, teacher_id, student_ids) ==
    IF Contains(S.admins, caller)
    THEN IF /\ Contains(S.teachers, teacher_id)
            /\ \A i \in 1..Len(student_ids) : Contains(S.students, student_ids[i])
            /\ ~Contains(S.class_list, class_name)
         THEN Ret([S EXCEPT !.classes[class_name] =
                                Some([teacher |-> teacher_id, students |-> student_ids]),
                            !.class_list = Append(@, class_name)], "Ok")
         ELSE Ret(S, "InvalidInput")
    ELSE Ret(S, "AccessNotAllowed")

\* add_score that accepts the class's teacher only while the teacher is
\* in the teacher set.
add_score_TeacherSetToo(S, caller, class_name, student_id, grade) ==
    IF ~IsSome(S.classes[class_name])
    THEN Ret(S, "InvalidInput")
    ELSE LET class_info == Unwrap(S.classes[class_name])
             key == <<student_id, class_name>>
         IN IF /\ class_info.teacher = caller /\ Contains(S.teachers, caller)
               /\ Contains(class_info.students, student_id)
            THEN LET current_grades == UnwrapOrDefault(S.grades[key])
                 IN Ret([S EXCEPT !.grades[key] = Some(Append(current_grades, grade))], "Ok")
            ELSE Ret(S, "AccessNotAllowed")

\* add_score that puts a registered student who is not on the roster onto
\* it before recording the score.
add_score_AutoEnroll(S, caller, class_name, student_id, grade) ==
    IF ~IsSome(S.classes[class_name])
    THEN Ret(S, "InvalidInput")
    ELSE LET class_info == Unwrap(S.classes[class_name])
             key == <<student_id, class_name>>
             current_grades == UnwrapOrDefault(S.grades[key])
         IN IF class_info.teacher = caller /\ Contains(class_info.students, student_id)
            THEN Ret([S EXCEPT !.grades[key] = Some(Append(current_grades, grade))], "Ok")
            ELSE IF class_info.teacher = caller /\ Contains(S.students, student_id)
                 THEN Ret([S EXCEPT !.grades[key] = Some(Append(current_grades, grade)),
                                    !.classes[class_name] =
                                        Some([class_info EXCEPT !.students =
                                                                    Append(@, student_id)])],
                          "Ok")
                 ELSE Ret(S, "AccessNotAllowed")

\* add_score that also lets an administrator record a score.
add_score_AdminToo(S, caller, class_name, student_id, grade) ==
    IF ~IsSome(S.classes[class_name])
    THEN Ret(S, "InvalidInput")
    ELSE LET class_info == Unwrap(S.classes[class_name])
             key == <<student_id, class_name>>
         IN IF (class_info.teacher = caller \/ Contains(S.admins, caller))
               /\ Contains(class_info.students, student_id)
            THEN LET current_grades == UnwrapOrDefault(S.grades[key])
                 IN Ret([S EXCEPT !.grades[key] = Some(Append(current_grades, grade))], "Ok")
            ELSE Ret(S, "AccessNotAllowed")

\* add_score that puts the new score in front of the recorded ones.
add_score_Prepend(S, caller, class_name, student_id, grade) ==
    IF ~IsSome(S.classes[class_name])
    THEN Ret(S, "InvalidInput")
    ELSE LET class_info == Unwrap(S.classes[class_name])
             key == <<student_id, class_name>>
         IN IF class_info.teacher = caller /\ Contains(class_info.students, student_id)
            THEN LET current_grades == UnwrapOrDefault(S.grades[key])
                 IN Ret([S EXCEPT !.grades[key] = Some(<<grade>> \o current_grades)], "Ok")
            ELSE Ret(S, "AccessNotAllowed")


add_score(S, caller, class_name, student_id, grade) ==
    IF ~IsSome(S.classes[class_name])
    THEN Ret(S, "InvalidInput")
    ELSE LET class_info == Unwrap(S.classes[class_name])
             key == <<student_id, class_name>>
         IN IF class_info.teacher = caller /\ Contains(class_info.students, student_id)
            THEN LET current_grades == UnwrapOrDefault(S.grades[key])
                 IN Ret([S EXCEPT !.grades[key] = Some(Append(current_grades, grade))], "Ok")
            ELSE Ret(S, "AccessNotAllowed")

add_accessstudents(S, caller, student_id, new_access_id) ==
    IF Contains(S.teachers, caller) \/ Contains(S.admins, caller) \/ caller = student_id
    THEN IF ~IsSome(S.accessstudents[student_id])
         THEN Ret(S, "Panic")
         ELSE IF ~Contains(Unwrap(S.accessstudents[student_id]), new_access_id)
              THEN LET current_access == UnwrapOrDefault(S.accessstudents[student_id])
                   IN Ret([S EXCEPT !.accessstudents[student_id] =
                                        Some(Append(current_access, new_access_id))], "Ok")
              ELSE Ret(S, "InvalidInput")
    ELSE Ret(S, "AccessNotAllowed")

\* access_grades that does not consult the student's grant list.
access_grades_NoGrants(S, caller, class_name, student_id) ==
    IF Contains(S.teachers, caller) \/ Contains(S.admins, caller)
    THEN RetVal(S, UnwrapOrDefault(S.grades[<<student_id, class_name>>]))
    ELSE Ret(S, "AccessNotAllowed")


access_grades(S, caller, class_name, student_id) ==
    LET has_access == UnwrapOrDefault(S.accessstudents[student_id])
    IN IF Contains(S.teachers, caller) \/ Contains(S.admins, caller)
          \/ Contains(has_access, caller)
       THEN RetVal(S, UnwrapOrDefault(S.grades[<<student_id, class_name>>]))
       ELSE Ret(S, "AccessNotAllowed")

remove_accessstudents(S, caller, student_id, remove_access_id) ==
    IF Contains(S.teachers, caller) \/ Contains(S.admins, caller)
    THEN LET current_access == UnwrapOrDefault(S.accessstudents[student_id])
         IN Ret([S EXCEPT !.accessstudents[student_id] =
                              Some(RemoveFirst(current_access, remove_access_id))], "Ok")
    ELSE Ret(S, "AccessNotAllowed")


\* remove_admins that answers InvalidInput for an id that is not an
\* administrator, as the other removals do.
remove_admins_Strict(S, caller, admin_id) ==
    IF Contains(S.admins, caller) /\ Len(S.admins) >= 2
    THEN IF Contains(S.admins, admin_id)
         THEN Ret([S EXCEPT !.admins = RemoveFirst(@, admin_id)], "Ok")
         ELSE Ret(S, "InvalidInput")
    ELSE Ret(S, "AccessNotAllowed")

\* remove_admins that refuses an administrator who names themself.
remove_admins_NoSelf(S, caller, admin_id) ==
    IF Contains(S.admins, caller) /\ Len(S.admins) >= 2 /\ caller # admin_id
    THEN Ret([S EXCEPT !.admins = RemoveFirst(@, admin_id)], "Ok")
    ELSE Ret(S, "AccessNotAllowed")

\* remove_admins whose size test is off by one.
remove_admins_OffByOne(S, caller, admin_id) ==
    IF Contains(S.admins, caller) /\ Len(S.admins) >= 1
    THEN Ret([S EXCEPT !.admins = RemoveFirst(@, admin_id)], "Ok")
    ELSE Ret(S, "AccessNotAllowed")


remove_admins(S, caller, admin_id) ==
    IF Contains(S.admins, caller) /\ Len(S.admins) >= 2
    THEN Ret([S EXCEPT !.admins = RemoveFirst(@, admin_id)], "Ok")
    ELSE Ret(S, "AccessNotAllowed")


\* remove_classes without its loop over the roster.
TakeGrades_Skipped(g, roster, class_name) == g

\* for student in students.iter() { self.grades.take((student, &class_name)); }
TakeGrades(g, roster, class_name) ==
    [k \in DOMAIN g |-> IF k[2] = class_name /\ Contains(roster, k[1]) THEN None ELSE g[k]]

\* remove_classes that leaves the name in the class list.
remove_classes_KeepName(S, caller, class_name) ==
    IF Contains(S.admins, caller)
    THEN IF ~IsSome(S.classes[class_name])
         THEN Ret(S, "Panic")
         ELSE LET class_info == Unwrap(S.classes[class_name])
              IN Ret([S EXCEPT !.grades = TakeGrades(@, class_info.students, class_name),
                               !.classes[class_name] = None], "Ok")
    ELSE Ret(S, "AccessNotAllowed")


remove_classes(S, caller, class_name) ==
    IF Contains(S.admins, caller)
    THEN IF ~IsSome(S.classes[class_name])
         THEN Ret(S, "Panic")
         ELSE LET class_info == Unwrap(S.classes[class_name])
              IN Ret([S EXCEPT !.grades = TakeGrades(@, class_info.students, class_name),
                               !.classes[class_name] = None,
                               !.class_list = RemoveFirst(@, class_name)], "Ok")
    ELSE Ret(S, "AccessNotAllowed")


\* unenroll_student that looks the class up before it checks the caller.
unenroll_student_LookupFirst(S, caller, class_name, student_id) ==
    IF ~IsSome(S.classes[class_name])
    THEN Ret(S, "Panic")
    ELSE LET class_info == Unwrap(S.classes[class_name])
         IN IF Contains(S.admins, caller)
            THEN IF Contains(S.students, student_id)
                    /\ Contains(class_info.students, student_id)
                 THEN Ret([S EXCEPT !.classes[class_name] =
                                        Some([teacher |-> class_info.teacher,
                                              students |-> RemoveFirst(class_info.students,
                                                                       student_id)]),
                                    !.grades[<<student_id, class_name>>] = None], "Ok")
                 ELSE Ret(S, "InvalidInput")
            ELSE Ret(S, "AccessNotAllowed")

\* unenroll_student that leaves the grade record in place.
unenroll_student_KeepGrades(S, caller, class_name, student_id) ==
    IF Contains(S.admins, caller)
    THEN IF ~IsSome(S.classes[class_name])
         THEN Ret(S, "Panic")
         ELSE LET class_info == Unwrap(S.classes[class_name])
              IN IF Contains(S.students, student_id)
                    /\ Contains(class_info.students, student_id)
                 THEN Ret([S EXCEPT !.classes[class_name] =
                                        Some([teacher |-> class_info.teacher,
                                              students |-> RemoveFirst(class_info.students,
                                                                       student_id)])], "Ok")
                 ELSE Ret(S, "InvalidInput")
    ELSE Ret(S, "AccessNotAllowed")


unenroll_student(S, caller, class_name, student_id) ==
    IF Contains(S.admins, caller)
    THEN IF ~IsSome(S.classes[class_name])
         THEN Ret(S, "Panic")
         ELSE LET class_info == Unwrap(S.classes[class_name])
              IN IF Contains(S.students, student_id)
                    /\ Contains(class_info.students, student_id)
                 THEN Ret([S EXCEPT !.classes[class_name] =
                                        Some([teacher |-> class_info.teacher,
                                              students |-> RemoveFirst(class_info.students,
                                                                       student_id)]),
                                    !.grades[<<student_id, class_name>>] = None], "Ok")
                 ELSE Ret(S, "InvalidInput")
    ELSE Ret(S, "AccessNotAllowed")

\* enroll_student that does not create the empty grade record.
enroll_student_NoRecord(S, caller, class_name, student_id) ==
    IF Contains(S.admins, caller)
    THEN IF ~IsSome(S.classes[class_name])
         THEN Ret(S, "Panic")
         ELSE LET class_info == Unwrap(S.classes[class_name])
              IN IF Contains(S.students, student_id)
                    /\ ~Contains(class_info.students, student_id)
                 THEN Ret([S EXCEPT !.classes[class_name] =
                                        Some([teacher |-> class_info.teacher,
                                              students |-> Append(class_info.students,
                                                                  student_id)])], "Ok")
                 ELSE Ret(S, "InvalidInput")
    ELSE Ret(S, "AccessNotAllowed")


enroll_student(S, caller, class_name, student_id) ==
    IF Contains(S.admins, caller)
    THEN IF ~IsSome(S.classes[class_name])
         THEN Ret(S, "Panic")
         ELSE LET class_info == Unwrap(S.classes[class_name])
              IN IF Contains(S.students, student_id)
                    /\ ~Contains(class_info.students, student_id)
                 THEN Ret([S EXCEPT !.classes[class_name] =
                                        Some([teacher |-> class_info.teacher,
                                              students |-> Append(class_info.students,
                                                                  student_id)]),
                                    !.grades[<<student_id, class_name>>] = Some(<< >>)], "Ok")
                 ELSE Ret(S, "InvalidInput")
    ELSE Ret(S, "AccessNotAllowed")


\* change_teacher that writes the record back with an empty roster.
change_teacher_DropRoster(S, caller, class_name, teacher_id) ==
    IF Contains(S.admins, caller)
    THEN IF Contains(S.teachers, teacher_id)
         THEN IF ~IsSome(S.classes[class_name])
              THEN Ret(S, "Panic")
              ELSE Ret([S EXCEPT !.classes[class_name] =
                                     Some([teacher |-> teacher_id, students |-> << >>])], "Ok")
         ELSE Ret(S, "InvalidInput")
    ELSE Ret(S, "AccessNotAllowed")

\* change_teacher that does not test the new teacher against the teacher set.
change_teacher_Unchecked(S, caller, class_name, teacher_id) ==
    IF Contains(S.admins, caller)
    THEN IF ~IsSome(S.classes[class_name])
         THEN Ret(S, "Panic")
         ELSE LET class_info == Unwrap(S.classes[class_name])
              IN Ret([S EXCEPT !.classes[class_name] =
                                   Some([teacher |-> teacher_id,
                                         students |-> class_info.students])], "Ok")
    ELSE Ret(S, "AccessNotAllowed")


change_teacher(S, caller, class_name, teacher_id) ==
    IF Contains(S.admins, caller)
    THEN IF Contains(S.teachers, teacher_id)
         THEN IF ~IsSome(S.classes[class_name])
              THEN Ret(S, "Panic")
              ELSE LET class_info == Unwrap(S.classes[class_name])
                   IN Ret([S EXCEPT !.classes[class_name] =
                                        Some([teacher |-> teacher_id,
                                              students |-> class_info.students])], "Ok")
         ELSE Ret(S, "InvalidInput")
    ELSE Ret(S, "AccessNotAllowed")

\* remove_teacher that also drops the records of the classes the teacher
\* is assigned to.
remove_teacher_Cascade(S, caller, teacher_id) ==
    IF Contains(S.admins, caller)
    THEN IF Contains(S.teachers, teacher_id)
         THEN Ret([S EXCEPT !.teachers = RemoveFirst(@, teacher_id),
                            !.classes = [c \in DOMAIN @ |->
                                            IF IsSome(@[c]) /\ Unwrap(@[c]).teacher = teacher_id
                                            THEN None ELSE @[c]]], "Ok")
         ELSE Ret(S, "InvalidInput")
    ELSE Ret(S, "AccessNotAllowed")


remove_teacher(S, caller, teacher_id) ==
    IF Contains(S.admins, caller)
    THEN IF Contains(S.teachers, teacher_id)
         THEN Ret([S EXCEPT !.teachers = RemoveFirst(@, teacher_id)], "Ok")
         ELSE Ret(S, "InvalidInput")
    ELSE Ret(S, "AccessNotAllowed")

\* The first loop of remove_student: the listed classes whose roster holds
\* the student, in class_list order.
StudentClasses(S, student_id) ==
    SelectSeq(S.class_list,
              LAMBDA c : Contains(Unwrap(S.classes[c]).students, student_id))

\* The second loop of remove_student over the classes still to do: take the
\* grade record, unenroll, and stop at the first unenroll that does not
\* return Ok, keeping what the earlier rounds wrote.
RECURSIVE Cascade(_, _, _, _)
Cascade(S, caller, student_id, todo) ==
    IF todo = << >>
    THEN Ret(S, "Ok")
    ELSE LET class == Head(todo)
             S1 == [S EXCEPT !.grades[<<student_id, class>>] = None]
             r == unenroll_student(S1, caller, class, student_id)
         IN IF r.res = "Ok"
            THEN Cascade(r.st, caller, student_id, Tail(todo))
            ELSE r


\* remove_student that drops the student from the student set before the
\* cascade instead of after it.
remove_student_DropFirst(S, caller, student_id) ==
    IF Contains(S.admins, caller)
    THEN IF Contains(S.students, student_id)
         THEN IF \E i \in 1..Len(S.class_list) : ~IsSome(S.classes[S.class_list[i]])
              THEN Ret(S, "Panic")
              ELSE LET S0 == [S EXCEPT !.students = RemoveFirst(@, student_id)]
                       r == Cascade(S0, caller, student_id, StudentClasses(S, student_id))
                   IN IF r.res = "Panic" THEN Ret(S, "Panic") ELSE r
         ELSE Ret(S, "InvalidInput")
    ELSE Ret(S, "AccessNotAllowed")


remove_student(S, caller, student_id) ==
    IF Contains(S.admins, caller)
    THEN IF Contains(S.students, student_id)
         THEN IF \E i \in 1..Len(S.class_list) : ~IsSome(S.classes[S.class_list[i]])
              THEN Ret(S, "Panic")
              ELSE LET r == Cascade(S, caller, student_id, StudentClasses(S, student_id))
                   IN IF r.res = "Ok"
                      THEN Ret([r.st EXCEPT !.students = RemoveFirst(@, student_id)], "Ok")
                      ELSE IF r.res = "Panic" THEN Ret(S, "Panic") ELSE r
         ELSE Ret(S, "InvalidInput")
    ELSE Ret(S, "AccessNotAllowed")

\* ------------------------------------------------------ the token contract
\* Balance values: u128 narrowed to BalanceBits bits.
BalanceModulus == 2 ^ BalanceBits
\* a - b and a + b on Balance when the build does not check for overflow
WrappingSub(a, b) == (a + BalanceModulus - b) % BalanceModulus
WrappingAdd(a, b) == (a + b) % BalanceModulus
\* Option::unwrap_or_default for a Balance value
UnwrapOrZero(o) == IF IsSome(o) THEN o[1] ELSE 0

\* Erc20::new, with the deployer as caller.
Erc20New(caller, supply) ==
    [total_supply |-> supply,
     balances |-> [a \in Accounts |-> IF a = caller THEN Some(supply) ELSE None],
     allowances |-> [k \in Accounts \X Accounts |-> None],
     allowances_to_others |-> [a \in Accounts |-> None],
     allowances_from_others |-> [a \in Accounts |-> None]]

allowance(S, owner, spender) == UnwrapOrZero(S.allowances[<<owner, spender>>])
allowance_from(S, owner) == UnwrapOrZero(S.allowances_from_others[owner])
allowance_to(S, spender) == UnwrapOrZero(S.allowances_to_others[spender])
total_supply(S) == S.total_supply
balance_of(S, owner) == UnwrapOrZero(S.balances[owner])

\* The updates of allowances_to_others and allowances_from_others are
\* commented out in the source of approve.
approve(S, caller, spender, value) ==
    Ret([S EXCEPT !.allowances[<<caller, spender>>] = Some(value)], "Ok")

decrease_approve(S, caller, spender, value) ==
    LET current_allowance == allowance(S, caller, spender)
    IN IF value > current_allowance
       THEN Ret(S, "InsufficientAllowance")
       ELSE Ret([S EXCEPT !.allowances[<<caller, spender>>] =
                              Some(current_allowance - value)], "Ok")

increase_approve(S, caller, spender, value) ==
    LET current_allowance == allowance(S, caller, spender)
    IN IF overflow_checks /\ current_allowance + value >= BalanceModulus
       THEN Ret(S, "Panic")
       ELSE Ret([S EXCEPT !.allowances[<<caller, spender>>] =
                              Some(WrappingAdd(current_allowance, value))], "Ok")

\* The balance of `to` is read after the balance of `from` was written.
transfer_from_to(S, from, to, value) ==
    LET from_balance == balance_of(S, from)
    IN IF from_balance < value
       THEN Ret(S, "InsufficientBalance")
       ELSE LET S1 == [S EXCEPT !.balances[from] = Some(from_balance - value)]
                to_balance == balance_of(S1, to)
            IN IF overflow_checks /\ to_balance + value >= BalanceModulus
               THEN Ret(S, "Panic")
               ELSE Ret([S1 EXCEPT !.balances[to] = Some(WrappingAdd(to_balance, value))],
                        "Ok")

transfer(S, caller, to, value) == transfer_from_to(S, caller, to, value)

transfer_from(S, caller, from, to, value) ==
    LET allowance_ == allowance(S, from, caller)
    IN IF allowance_ < value
       THEN Ret(S, "InsufficientAllowance")
       ELSE LET r == transfer_from_to(S, from, to, value)
            IN IF r.res # "Ok"
               THEN r
               ELSE LET S1 == [r.st EXCEPT !.allowances[<<from, caller>>] =
                                               Some(allowance_ - value)]
                        tvalue == allowance_to(S1, caller)
                        S2 == [S1 EXCEPT !.allowances_to_others[caller] =
                                             Some(WrappingSub(tvalue, value))]
                        fvalue == allowance_from(S2, from)
                        S3 == [S2 EXCEPT !.allowances_from_others[from] =
                                             Some(WrappingSub(fvalue, value))]
                    IN IF overflow_checks /\ (tvalue < value \/ fvalue < value)
                       THEN Ret(S, "Panic")
                       ELSE Ret(S3, "Ok")

\* ------------------------------------------------------------- the actions
NoArg == "-"
Call(op, caller, class, id, other, list, grade) ==
    [op |-> op, caller |-> caller, class |-> class, id |-> id, other |-> other,
     list |-> list, grade |-> grade]

\* A message is sent when the outcome of the one before has been taken
\* (Settle), and a run sends at most MaxSteps messages.
Idle == Call("idle", NoArg, NoArg, NoArg, NoArg, << >>, 0)
CanSend == steps < MaxSteps /\ last.op \in {"new", "idle"}

\* Send one message: r is its outcome on the current storage.
Send(call, r) ==
    /\ accessstudents' = r.st.accessstudents
    /\ students' = r.st.students
    /\ teachers' = r.st.teachers
    /\ admins' = r.st.admins
    /\ class_list' = r.st.class_list
    /\ grades' = r.st.grades
    /\ classes' = r.st.classes
    /\ last' = call
    /\ result' = [res |-> r.res, val |-> r.val]
    /\ pre' = St
    /\ steps' = steps + 1
    /\ UNCHANGED <<erc20, overflow_checks>>

Init ==
    /\ accessstudents = New("alice").accessstudents
    /\ students = New("alice").students
    /\ teachers = New("alice").teachers
    /\ admins = New("alice").admins
    /\ class_list = New("alice").class_list
    /\ grades = New("alice").grades
    /\ classes = New("alice").classes
    /\ last = Call("new", "alice", NoArg, NoArg, NoArg, << >>, 0)
    /\ result = [res |-> "Ok", val |-> << >>]
    /\ pre = New("alice")
    /\ steps = 0
    /\ erc20 = Erc20New("alice", MaxSupply)
    /\ overflow_checks = TRUE

AddTeacher ==
    /\ CanSend
    /\ \E caller \in Accounts, id \in Accounts :
        Send(Call("add_teacher", caller, NoArg, id, NoArg, << >>, 0),
             add_teacher(St, caller, id))

AddStudent ==
    /\ CanSend
    /\ \E caller \in Accounts, id \in Accounts :
        Send(Call("add_student", caller, NoArg, id, NoArg, << >>, 0),
             add_student(St, caller, id))

AddAdmins ==
    /\ CanSend
    /\ \E caller \in Accounts, id \in Accounts :
        Send(Call("add_admins", caller, NoArg, id, NoArg, << >>, 0),
             add_admins(St, caller, id))

AddClasses ==
    /\ CanSend
    /\ \E caller \in Accounts, c \in ClassNames, t \in Accounts, ids \in StudentLists :
        Send(Call("add_classes", caller, c, t, NoArg, ids, 0),
             add_classes(St, caller, c, t, ids))

AddScore ==
    /\ CanSend
    /\ \E caller \in Accounts, c \in ClassNames, id \in Accounts, g \in Scores :
        Send(Call("add_score", caller, c, id, NoArg, << >>, g),
             add_score(St, caller, c, id, g))

AddAccessstudents ==
    /\ CanSend
    /\ \E caller \in Accounts, id \in Accounts, other \in Accounts :
        Send(Call("add_accessstudents", caller, NoArg, id, other, << >>, 0),
             add_accessstudents(St, caller, id, other))

AccessGrades ==
    /\ CanSend
    /\ \E caller \in Accounts, c \in ClassNames, id \in Accounts :
        Send(Call("access_grades", caller, c, id, NoArg, << >>, 0),
             access_grades(St, caller, c, id))

RemoveAccessstudents ==
    /\ CanSend
    /\ \E caller \in Accounts, id \in Accounts, other \in Accounts :
        Send(Call("remove_accessstudents", caller, NoArg, id, other, << >>, 0),
             remove_accessstudents(St, caller, id, other))

RemoveAdmins ==
    /\ CanSend
    /\ \E caller \in Accounts, id \in Accounts :
        Send(Call("remove_admins", caller, NoArg, id, NoArg, << >>, 0),
             remove_admins(St, caller, id))

RemoveClasses ==
    /\ CanSend
    /\ \E caller \in Accounts, c \in ClassNames :
        Send(Call("remove_classes", caller, c, NoArg, NoArg, << >>, 0),
             remove_classes(St, caller, c))

UnenrollStudent ==
    /\ CanSend
    /\ \E caller \in Accounts, c \in ClassNames, id \in Accounts :
        Send(Call("unenroll_student", caller, c, id, NoArg, << >>, 0),
             unenroll_student(St, caller, c, id))

EnrollStudent ==
    /\ CanSend
    /\ \E caller \in Accounts, c \in ClassNames, id \in Accounts :
        Send(Call("enroll_student", caller, c, id, NoArg, << >>, 0),
             enroll_student(St, caller, c, id))

ChangeTeacher ==
    /\ CanSend
    /\ \E caller \in Accounts, c \in ClassNames, id \in Accounts :
        Send(Call("change_teacher", caller, c, id, NoArg, << >>, 0),
             change_teacher(St, caller, c, id))

RemoveTeacher ==
    /\ CanSend
    /\ \E caller \in Accounts, id \in Accounts :
        Send(Call("remove_teacher", caller, NoArg, id, NoArg, << >>, 0),
             remove_teacher(St, caller, id))

RemoveStudent ==
    /\ CanSend
    /\ \E caller \in Accounts, id \in Accounts :
        Send(Call("remove_student", caller, NoArg, id, NoArg, << >>, 0),
             remove_student(St, caller, id))

\* The outcome of the last message has been taken: the next message is sent
\* in the storage it left.  A message that wrote nothing is not followed up,
\* the storage it leaves being the one it was sent in.
Settle ==
    /\ steps < MaxSteps
    /\ last.op \notin {"new", "idle"}
    /\ St # pre
    /\ last' = Idle
    /\ result' = [res |-> "Ok", val |-> << >>]
    /\ pre' = St
    /\ UNCHANGED <<stores, steps, erc20, overflow_checks>>

Next ==
    \/ Settle
    \/ AddTeacher
    \/ AddStudent
    \/ AddAdmins
    \/ AddClasses
    \/ AddScore
    \/ AddAccessstudents
    \/ AccessGrades
    \/ RemoveAccessstudents
    \/ RemoveAdmins
    \/ RemoveClasses
    \/ UnenrollStudent
    \/ EnrollStudent
    \/ ChangeTeacher
    \/ RemoveTeacher
    \/ RemoveStudent

Spec == Init /\ [][Next]_vars

\* ----------------------------------------------------- the token's actions
Amounts == 0..MaxAmount
Supplies == 1..MaxSupply

TokenCall(op, caller, from, to, spender, value) ==
    [op |-> op, caller |-> caller, from |-> from, to |-> to, spender |-> spender,
     value |-> value]

\* Send one token message: r is its outcome on the current token storage.
TokenSend(call, r) ==
    /\ erc20' = r.st
    /\ last' = call
    /\ result' = [res |-> r.res, val |-> r.val]
    /\ pre' = erc20
    /\ steps' = steps + 1
    /\ UNCHANGED <<stores, overflow_checks>>

TokenInit ==
    /\ accessstudents = New("alice").accessstudents
    /\ students = New("alice").students
    /\ teachers = New("alice").teachers
    /\ admins = New("alice").admins
    /\ class_list = New("alice").class_list
    /\ grades = New("alice").grades
    /\ classes = New("alice").classes
    /\ \E supply \in Supplies :
           /\ erc20 = Erc20New("alice", supply)
           /\ pre = Erc20New("alice", supply)
           /\ last = TokenCall("new", "alice", NoArg, NoArg, NoArg, supply)
    /\ overflow_checks \in BOOLEAN
    /\ result = [res |-> "Ok", val |-> << >>]
    /\ steps = 0

Approve ==
    /\ steps < MaxTokenSteps
    /\ \E caller \in Accounts, spender \in Accounts, value \in Amounts :
           TokenSend(TokenCall("approve", caller, caller, NoArg, spender, value),
                     approve(erc20, caller, spender, value))

DecreaseApprove ==
    /\ steps < MaxTokenSteps
    /\ \E caller \in Accounts, spender \in Accounts, value \in Amounts :
           TokenSend(TokenCall("decrease_approve", caller, caller, NoArg, spender, value),
                     decrease_approve(erc20, caller, spender, value))

IncreaseApprove ==
    /\ steps < MaxTokenSteps
    /\ \E caller \in Accounts, spender \in Accounts, value \in Amounts :
           TokenSend(TokenCall("increase_approve", caller, caller, NoArg, spender, value),
                     increase_approve(erc20, caller, spender, value))

TransferFrom ==
    /\ steps < MaxTokenSteps
    /\ \E caller \in Accounts, from \in Accounts, to \in Accounts, value \in Amounts :
           TokenSend(TokenCall("transfer_from", caller, from, to, caller, value),
                     transfer_from(erc20, caller, from, to, value))

Transfer ==
    /\ steps < MaxTokenSteps
    /\ \E caller \in Accounts, to \in Accounts, value \in Amounts :
           TokenSend(TokenCall("transfer", caller, caller, to, NoArg, value),
                     transfer(erc20, caller, to, value))

TokenNext ==
    \/ Approve
    \/ DecreaseApprove
    \/ IncreaseApprove
    \/ TransferFrom
    \/ Transfer

SpecToken == TokenInit /\ [][TokenNext]_vars

\* ============================================================== properties
\* The messages the contract reserves to administrators.
AdminOps == {"add_teacher", "add_student", "add_admins", "remove_teacher", "remove_admins",
             "remove_student", "add_classes", "remove_classes", "enroll_student",
             "unenroll_student", "change_teacher"}
Ok == result.res = "Ok"
\* The roster and the teacher of class c in storage S (c having a record).
Roster(S, c) == IF IsSome(S.classes[c]) THEN Unwrap(S.classes[c]).students ELSE << >>
Teacher(S, c) == Unwrap(S.classes[c]).teacher
HasGrades(S, s, c) == IsSome(S.grades[<<s, c>>])
\* Class c of storage S names a teacher who is not in the teacher set.
Dangling(S, c) == IsSome(S.classes[c]) /\ ~Contains(S.teachers, Teacher(S, c))

\* C1: the administrator set has at least one member in every reachable
\* state, and remove_admins returns Ok only when it was sent with at least
\* two administrators, so that it never leaves the set empty.
C1_AdminSetNeverEmpty ==
    /\ Len(admins) >= 1
    /\ (last.op = "remove_admins" /\ Ok) => Len(pre.admins) >= 2
C1_Witness ==
    /\ last.op = "remove_admins" /\ Ok
    /\ Len(pre.admins) = 2 /\ Len(admins) = 1

\* C2: an administrator-only message sent by a caller who is not in the
\* administrator set returns AccessNotAllowed and leaves every store as it
\* was, whatever its arguments.
C2_NonAdminRefused ==
    (last.op \in AdminOps /\ ~Contains(pre.admins, last.caller))
        => (result.res = "AccessNotAllowed" /\ St = pre)
\* The deployer, removed from the administrators, unenrolls from a class
\* that has no record.
C2_Witness ==
    /\ last.op = "unenroll_student" /\ last.caller = "alice"
    /\ ~Contains(pre.admins, "alice")
    /\ ~IsSome(pre.classes[last.class])
    /\ result.res = "AccessNotAllowed"

\* C3: a message that returns AccessNotAllowed or InvalidInput leaves every
\* store exactly as it was when the message was sent.
C3_ErrorLeavesStores ==
    result.res \in {"AccessNotAllowed", "InvalidInput"} => St = pre
\* remove_student refused while classes with enrolled students exist.
C3_Witness ==
    /\ last.op = "remove_student" /\ result.res = "InvalidInput"
    /\ \E c \in ClassNames : Roster(pre, c) # << >>
    /\ St = pre

\* C4: after every successful message, every id on the roster of a class
\* record is a member of the student set.
C4_RosterWithinStudents ==
    Ok => \A c \in ClassNames : \A i \in 1..Len(Roster(St, c)) :
              Contains(students, Roster(St, c)[i])

\* C5: a grade record for (s, c) exists only if c is an active class with s
\* on its roster, and unenroll_student, remove_classes and remove_student
\* leave no grade record for the enrollments they remove.
C5_GradeOnlyWhileEnrolled ==
    /\ \A s \in Accounts, c \in ClassNames :
           HasGrades(St, s, c) => /\ Contains(class_list, c)
                                  /\ IsSome(classes[c])
                                  /\ Contains(Roster(St, c), s)
    /\ (last.op = "unenroll_student" /\ Ok) => ~HasGrades(St, last.id, last.class)
    /\ (last.op = "remove_classes" /\ Ok) => \A s \in Accounts : ~HasGrades(St, s, last.class)
    /\ (last.op = "remove_student" /\ Ok) => \A c \in ClassNames : ~HasGrades(St, last.id, c)
C5_Witness ==
    /\ last.op = "unenroll_student" /\ Ok
    /\ HasGrades(pre, last.id, last.class)
    /\ ~HasGrades(St, last.id, last.class)

\* C6 as stated: after every successful message the teacher of every class
\* record is a member of the teacher set.
C6_TeacherInTeacherSet ==
    Ok => \A c \in ClassNames : ~Dangling(St, c)
\* C6 as amended: add_classes and change_teacher store a member of the
\* teacher set, and a class record names a teacher outside the teacher set
\* only if it already did before the last message or that message was a
\* successful remove_teacher of that very teacher.
C6_TeacherInSetUnlessRemoved ==
    /\ (last.op \in {"add_classes", "change_teacher"} /\ Ok)
           => Contains(teachers, Teacher(St, last.class))
    /\ \A c \in ClassNames :
           Dangling(St, c)
               => \/ Dangling(pre, c) /\ Teacher(pre, c) = Teacher(St, c)
                  \/ last.op = "remove_teacher" /\ Ok /\ Teacher(St, c) = last.id
C6_Witness ==
    /\ last.op = "remove_teacher" /\ Ok
    /\ \E c \in ClassNames : Dangling(St, c) /\ ~Dangling(pre, c) /\ Teacher(St, c) = last.id

\* C7: every member of the student set has an access-grant entry, possibly
\* an empty one.
C7_StudentHasGrantEntry ==
    \A i \in 1..Len(students) : IsSome(accessstudents[students[i]])
\* A registered student whose last grantee was just removed.
C7_Witness ==
    /\ last.op = "remove_accessstudents" /\ Ok
    /\ Contains(students, last.id)
    /\ pre.accessstudents[last.id] = Some(<<last.other>>)
    /\ accessstudents[last.id] = Some(<< >>)

\* C8: after remove_student(s) succeeds, no access-grant entry exists for s.
C8_GrantsDeletedWithStudent ==
    (last.op = "remove_student" /\ Ok) => ~IsSome(accessstudents[last.id])

\* C9: remove_student(s) sent by an administrator returns InvalidInput if s
\* is not a student; otherwise it returns Ok and leaves s on no roster, with
\* no grade record and outside the student set, every other student's
\* roster memberships and grade records being as before.
C9_RemoveStudent ==
    (last.op = "remove_student" /\ Contains(pre.admins, last.caller))
        => IF ~Contains(pre.students, last.id)
           THEN result.res = "InvalidInput"
           ELSE /\ Ok
                /\ ~Contains(students, last.id)
                /\ \A c \in ClassNames :
                       /\ ~Contains(Roster(St, c), last.id)
                       /\ ~HasGrades(St, last.id, c)
                       /\ \A s \in Accounts \ {last.id} :
                              /\ Contains(Roster(St, c), s) <=> Contains(Roster(pre, c), s)
                              /\ grades[<<s, c>>] = pre.grades[<<s, c>>]

\* C10: after remove_classes(c) succeeds there is no grade record for any
\* (student, c), no class record for c, and c is not in the class list;
\* the record and the grade records of every other class are as before.
C10_RemoveClasses ==
    (last.op = "remove_classes" /\ Ok)
        => /\ \A s \in Accounts : ~HasGrades(St, s, last.class)
           /\ ~IsSome(classes[last.class])
           /\ ~Contains(class_list, last.class)
           /\ \A d \in ClassNames \ {last.class} :
                  /\ classes[d] = pre.classes[d]
                  /\ \A s \in Accounts : grades[<<s, d>>] = pre.grades[<<s, d>>]
\* A class with a scored student is removed.
C10_Witness ==
    /\ last.op = "remove_classes" /\ Ok
    /\ \E s \in Accounts : /\ HasGrades(pre, s, last.class)
                           /\ Unwrap(pre.grades[<<s, last.class>>]) # << >>

\* The grant list of student s in storage S (empty when s has no entry).
Grants(S, s) == UnwrapOrDefault(S.accessstudents[s])
\* The score sequence of (s, c) in storage S (empty when there is no record).
ScoresOf(S, s, c) == UnwrapOrDefault(S.grades[<<s, c>>])

\* C11: add_score returns InvalidInput when the class has no record; when
\* it has one, add_score returns Ok if the caller is the teacher the record
\* names and the student is on its roster, and AccessNotAllowed otherwise,
\* so that only the assigned teacher ever adds a score.
C11_AddScoreAuthority ==
    last.op = "add_score"
        => IF ~IsSome(pre.classes[last.class])
           THEN result.res = "InvalidInput" /\ St = pre
           ELSE IF /\ last.caller = Teacher(pre, last.class)
                   /\ Contains(Roster(pre, last.class), last.id)
                THEN Ok
                ELSE result.res = "AccessNotAllowed" /\ St = pre
\* An administrator who is a teacher, but not the teacher of the class, is
\* refused for a student on the roster.
C11_Witness ==
    /\ last.op = "add_score" /\ result.res = "AccessNotAllowed"
    /\ IsSome(pre.classes[last.class])
    /\ Contains(pre.admins, last.caller) /\ Contains(pre.teachers, last.caller)
    /\ last.caller # Teacher(pre, last.class)
    /\ Contains(Roster(pre, last.class), last.id)

\* C12: a successful add_score(c, s, v) makes the (s, c) sequence its old
\* value (empty if absent) followed by v and leaves every other record as
\* it was; every other message leaves each existing record unchanged or
\* deletes it as a whole; access_grades returns the stored sequence.
C12_ScoresAppendOnly ==
    /\ (last.op = "add_score" /\ Ok)
           => /\ grades[<<last.id, last.class>>]
                     = Some(Append(ScoresOf(pre, last.id, last.class), last.grade))
              /\ \A k \in (Accounts \X ClassNames) \ {<<last.id, last.class>>} :
                     grades[k] = pre.grades[k]
    /\ last.op # "add_score"
           => \A k \in Accounts \X ClassNames :
                  IsSome(pre.grades[k]) => (grades[k] = pre.grades[k] \/ grades[k] = None)
    /\ (last.op = "access_grades" /\ Ok)
           => result.val = ScoresOf(pre, last.id, last.class)
\* A second score is recorded after a different first one.
C12_Witness ==
    /\ last.op = "add_score" /\ Ok
    /\ Len(ScoresOf(pre, last.id, last.class)) = 1
    /\ ScoresOf(pre, last.id, last.class)[1] # last.grade
    /\ ScoresOf(St, last.id, last.class) = Append(ScoresOf(pre, last.id, last.class), last.grade)

\* C13: access_grades returns AccessNotAllowed exactly when the caller is
\* not a teacher, not an administrator and not in the student's grant list;
\* otherwise it returns Ok with the (s, c) score sequence, the empty
\* sequence when there is no record; it never returns InvalidInput and
\* writes nothing.
C13_AccessGrades ==
    last.op = "access_grades"
        => /\ St = pre
           /\ IF \/ Contains(pre.teachers, last.caller)
                 \/ Contains(pre.admins, last.caller)
                 \/ Contains(Grants(pre, last.id), last.caller)
              THEN /\ Ok
                   /\ result.val = IF HasGrades(pre, last.id, last.class)
                                   THEN Unwrap(pre.grades[<<last.id, last.class>>])
                                   ELSE << >>
              ELSE result.res = "AccessNotAllowed"
\* The deployer, no longer an administrator and never granted, is refused.
C13_Witness ==
    /\ last.op = "access_grades" /\ result.res = "AccessNotAllowed"
    /\ last.caller = "alice" /\ ~Contains(pre.admins, "alice")
    /\ Contains(pre.students, last.id)

NoDup(v) == \A i, j \in 1..Len(v) : v[i] = v[j] => i = j

\* C14: add_accessstudents(s, g) returns AccessNotAllowed unless the caller
\* is a teacher, an administrator or s; for such a caller it returns
\* InvalidInput when g is in s's grant list and otherwise returns Ok with g
\* appended at the end of the list; no grant list ever holds an id twice.
C14_AddAccess ==
    /\ \A a \in Accounts : NoDup(Grants(St, a))
    /\ last.op = "add_accessstudents"
           => IF ~(\/ Contains(pre.teachers, last.caller)
                   \/ Contains(pre.admins, last.caller)
                   \/ last.caller = last.id)
              THEN result.res = "AccessNotAllowed" /\ St = pre
              ELSE IF Contains(Grants(pre, last.id), last.other)
                   THEN result.res = "InvalidInput" /\ St = pre
                   ELSE /\ Ok
                        /\ Grants(St, last.id) = Append(Grants(pre, last.id), last.other)

\* C15: remove_accessstudents(s, g) returns AccessNotAllowed unless the
\* caller is a teacher or an administrator; for such a caller it returns
\* Ok, g is then not in s's grant list and the rest of the list is as
\* before, and when g was not in the list every store is exactly as it was.
C15_RemoveAccess ==
    last.op = "remove_accessstudents"
        => IF ~(Contains(pre.teachers, last.caller) \/ Contains(pre.admins, last.caller))
           THEN result.res = "AccessNotAllowed" /\ St = pre
           ELSE /\ Ok
                /\ Grants(St, last.id)
                       = SelectSeq(Grants(pre, last.id), LAMBDA x : x # last.other)
                /\ ~Contains(Grants(pre, last.id), last.other) => St = pre

\* C16: remove_admins returns AccessNotAllowed when the caller is not an
\* administrator or there are fewer than two administrators, and Ok
\* otherwise, also when the caller names themself.
C16_RemoveAdminsGuard ==
    last.op = "remove_admins"
        => IF Contains(pre.admins, last.caller) /\ Len(pre.admins) >= 2
           THEN Ok
           ELSE result.res = "AccessNotAllowed" /\ St = pre
\* One of two administrators removes themself.
C16_Witness ==
    /\ last.op = "remove_admins" /\ Ok
    /\ last.caller = last.id
    /\ Contains(pre.admins, last.id) /\ ~Contains(admins, last.id)

\* The sequence v without the id x, the others in their order.
Without(v, x) == SelectSeq(v, LAMBDA y : y # x)

\* C17: add_teacher, add_student and add_admins sent by an administrator
\* return InvalidInput when the id is in the target set and otherwise put
\* it at the end; no id occurs twice in the administrator, teacher or
\* student set; a successful removal leaves the other members in their
\* order.
C17_RoleSets ==
    /\ NoDup(admins) /\ NoDup(teachers) /\ NoDup(students)
    /\ (last.op = "add_teacher" /\ Contains(pre.admins, last.caller))
           => IF Contains(pre.teachers, last.id)
              THEN result.res = "InvalidInput" /\ St = pre
              ELSE Ok /\ teachers = Append(pre.teachers, last.id)
    /\ (last.op = "add_student" /\ Contains(pre.admins, last.caller))
           => IF Contains(pre.students, last.id)
              THEN result.res = "InvalidInput" /\ St = pre
              ELSE Ok /\ students = Append(pre.students, last.id)
    /\ (last.op = "add_admins" /\ Contains(pre.admins, last.caller))
           => IF Contains(pre.admins, last.id)
              THEN result.res = "InvalidInput" /\ St = pre
              ELSE Ok /\ admins = Append(pre.admins, last.id)
    /\ (last.op = "remove_teacher" /\ Ok) => teachers = Without(pre.teachers, last.id)
    /\ (last.op = "remove_student" /\ Ok) => students = Without(pre.students, last.id)
    /\ (last.op = "remove_admins" /\ Ok) => admins = Without(pre.admins, last.id)
\* The first of three administrators is removed.
C17_Witness ==
    /\ last.op = "remove_admins" /\ Ok
    /\ Len(pre.admins) = 3 /\ last.id = pre.admins[1]
    /\ admins = <<pre.admins[2], pre.admins[3]>>

\* C18: right after a successful add_student(a) the grant list of a is
\* exactly [a], whatever was recorded for a before, and access_grades(c, a)
\* sent by a returns Ok for every class name c, with the empty sequence
\* when (a, c) has no grade record.
C18_AddStudentSeedsGrant ==
    (last.op = "add_student" /\ Ok)
        => /\ accessstudents[last.id] = Some(<<last.id>>)
           /\ \A c \in ClassNames :
                  LET r == access_grades(St, last.id, c, last.id)
                  IN /\ r.res = "Ok"
                     /\ ~HasGrades(St, last.id, c) => r.val = << >>
\* A student is registered again after being removed with a second grantee
\* on record.
C18_Witness ==
    /\ last.op = "add_student" /\ Ok
    /\ IsSome(pre.accessstudents[last.id])
    /\ Len(Grants(pre, last.id)) = 2
    /\ accessstudents[last.id] = Some(<<last.id>>)

\* C19: add_classes sent by an administrator returns InvalidInput unless
\* the teacher is in the teacher set, every listed id is in the student set
\* and the name is not in the class list; on success the class record is
\* exactly (teacher, students), the name is at the end of the class list
\* and every other class record is as before.
C19_AddClasses ==
    (last.op = "add_classes" /\ Contains(pre.admins, last.caller))
        => IF /\ Contains(pre.teachers, last.id)
              /\ \A i \in 1..Len(last.list) : Contains(pre.students, last.list[i])
              /\ ~Contains(pre.class_list, last.class)
           THEN /\ Ok
                /\ classes[last.class] = Some([teacher |-> last.id, students |-> last.list])
                /\ class_list = Append(pre.class_list, last.class)
                /\ \A d \in ClassNames \ {last.class} : classes[d] = pre.classes[d]
           ELSE result.res = "InvalidInput" /\ St = pre
\* An active class name is offered again with a valid teacher and list.
C19_Witness ==
    /\ last.op = "add_classes" /\ result.res = "InvalidInput"
    /\ Contains(pre.admins, last.caller)
    /\ Contains(pre.teachers, last.id)
    /\ last.list # << >>
    /\ \A i \in 1..Len(last.list) : Contains(pre.students, last.list[i])
    /\ Contains(pre.class_list, last.class)

\* C20: enroll_student sent by an administrator for a class with a record
\* returns InvalidInput unless the id is in the student set and not on the
\* roster; on success the id is at the end of the roster, the teacher is
\* as before and the (s, c) grade record exists and is empty.
C20_EnrollStudent ==
    (/\ last.op = "enroll_student"
     /\ Contains(pre.admins, last.caller)
     /\ IsSome(pre.classes[last.class]))
        => IF /\ Contains(pre.students, last.id)
              /\ ~Contains(Roster(pre, last.class), last.id)
           THEN /\ Ok
                /\ Roster(St, last.class) = Append(Roster(pre, last.class), last.id)
                /\ Teacher(St, last.class) = Teacher(pre, last.class)
                /\ grades[<<last.id, last.class>>] = Some(<< >>)
           ELSE result.res = "InvalidInput" /\ St = pre
\* A second student joins a class.
C20_Witness ==
    /\ last.op = "enroll_student" /\ Ok
    /\ Len(Roster(pre, last.class)) = 1
    /\ Roster(St, last.class) = <<Roster(pre, last.class)[1], last.id>>

\* C21: unenroll_student sent by an administrator for a class with a record
\* returns InvalidInput unless the id is in the student set and on the
\* roster; on success the id is no longer on the roster, the (s, c) grade
\* record is gone, and the teacher and the other roster members, in their
\* order, are as before.
C21_UnenrollStudent ==
    (/\ last.op = "unenroll_student"
     /\ Contains(pre.admins, last.caller)
     /\ IsSome(pre.classes[last.class]))
        => IF /\ Contains(pre.students, last.id)
              /\ Contains(Roster(pre, last.class), last.id)
           THEN /\ Ok
                /\ ~Contains(Roster(St, last.class), last.id)
                /\ Roster(St, last.class) = Without(Roster(pre, last.class), last.id)
                /\ Teacher(St, last.class) = Teacher(pre, last.class)
                /\ ~HasGrades(St, last.id, last.class)
           ELSE result.res = "InvalidInput" /\ St = pre

\* C22: change_teacher sent by an administrator returns InvalidInput
\* exactly when the new teacher is not in the teacher set; on success the
\* class names the new teacher while its roster, every grade record and
\* every other class record are as before.
C22_ChangeTeacher ==
    (last.op = "change_teacher" /\ Contains(pre.admins, last.caller))
        => /\ result.res = "InvalidInput" <=> ~Contains(pre.teachers, last.id)
           /\ result.res = "InvalidInput" => St = pre
           /\ Ok => /\ Teacher(St, last.class) = last.id
                    /\ Roster(St, last.class) = Roster(pre, last.class)
                    /\ grades = pre.grades
                    /\ \A d \in ClassNames \ {last.class} : classes[d] = pre.classes[d]
                    /\ St = [pre EXCEPT !.classes = classes]
\* A class with an enrolled student passes to another teacher.
C22_Witness ==
    /\ last.op = "change_teacher" /\ Ok
    /\ Teacher(pre, last.class) # last.id
    /\ Roster(pre, last.class) # << >>
    /\ Roster(St, last.class) = Roster(pre, last.class)

\* C23: remove_teacher sent by an administrator returns InvalidInput if the
\* id is not in the teacher set; otherwise it returns Ok, the id leaves the
\* teacher set and nothing else changes: class records that name the id,
\* grade records and grant entries are as before.
C23_RemoveTeacher ==
    (last.op = "remove_teacher" /\ Contains(pre.admins, last.caller))
        => IF ~Contains(pre.teachers, last.id)
           THEN result.res = "InvalidInput" /\ St = pre
           ELSE /\ Ok
                /\ ~Contains(teachers, last.id)
                /\ St = [pre EXCEPT !.teachers = Without(pre.teachers, last.id)]
\* The teacher of a class with an enrolled student is removed.
C23_Witness ==
    /\ last.op = "remove_teacher" /\ Ok
    /\ \E c \in ClassNames : /\ IsSome(classes[c]) /\ Teacher(St, c) = last.id
                             /\ Roster(St, c) # << >>
    /\ classes = pre.classes

\* C26: no class roster holds an id twice, in any reachable state.
C26_RosterNoRepeat ==
    \A c \in ClassNames : NoDup(Roster(St, c))

\* C27: the class list holds no name twice, and a name is in the class
\* list exactly when the class has a record; so the scan of the class list
\* in remove_student finds a record for every name and never panics.
C27_ClassListMatchesRecords ==
    /\ NoDup(class_list)
    /\ \A c \in ClassNames : Contains(class_list, c) <=> IsSome(classes[c])
    /\ \A i \in 1..Len(class_list) : class_list[i] \in ClassNames
    /\ last.op = "remove_student" => result.res # "Panic"
\* A student on the roster of the only listed class is removed while the
\* other class name has no record: the scan visits the listed name only.
C27_Witness ==
    /\ last.op = "remove_student" /\ Ok
    /\ Len(pre.class_list) = 1
    /\ \E c \in ClassNames : ~IsSome(pre.classes[c])
    /\ Contains(Roster(pre, pre.class_list[1]), last.id)

\* C28: remove_classes, enroll_student, unenroll_student and change_teacher
\* sent by an administrator for a class name without a record, and
\* add_accessstudents sent by a permitted caller for an id without a grant
\* entry, each return InvalidInput and leave every store as it was.
C28_MissingRecordIsInvalidInput ==
    /\ (/\ last.op \in {"remove_classes", "enroll_student", "unenroll_student",
                        "change_teacher"}
        /\ Contains(pre.admins, last.caller)
        /\ ~IsSome(pre.classes[last.class]))
           => result.res = "InvalidInput" /\ St = pre
    /\ (/\ last.op = "add_accessstudents"
        /\ \/ Contains(pre.teachers, last.caller)
           \/ Contains(pre.admins, last.caller)
           \/ last.caller = last.id
        /\ ~IsSome(pre.accessstudents[last.id]))
           => result.res = "InvalidInput" /\ St = pre

\* C29: add_score, add_accessstudents, remove_accessstudents and
\* access_grades never change the administrator, teacher or student set,
\* the class list or a class record; add_score changes at most the (s, c)
\* grade record, the two access commands at most the named student's grant
\* entry, access_grades nothing; and no message sent by a caller who is
\* not an administrator changes a role set, the class list or a class
\* record.
C29_NoPrivilegeEscalation ==
    LET RolesAndClasses(S) == <<S.admins, S.teachers, S.students, S.class_list, S.classes>>
    IN /\ last.op \in {"add_score", "add_accessstudents", "remove_accessstudents",
                       "access_grades"}
              => RolesAndClasses(St) = RolesAndClasses(pre)
       /\ last.op = "add_score"
              => St = [pre EXCEPT !.grades[<<last.id, last.class>>] =
                                      grades[<<last.id, last.class>>]]
       /\ last.op \in {"add_accessstudents", "remove_accessstudents"}
              => St = [pre EXCEPT !.accessstudents[last.id] = accessstudents[last.id]]
       /\ last.op = "access_grades" => St = pre
       /\ (last.op \notin {"new", "idle"} /\ ~Contains(pre.admins, last.caller))
              => RolesAndClasses(St) = RolesAndClasses(pre)
\* A teacher who is not an administrator records a score in a class that
\* has a registered student off its roster.
C29_Witness ==
    /\ last.op = "add_score" /\ Ok
    /\ ~Contains(pre.admins, last.caller)
    /\ \E i \in 1..Len(students) : ~Contains(Roster(St, last.class), students[i])

\* C30: the right to record a score rests on the class record's teacher
\* field alone: in every state the teacher named by a class record can
\* record a score for every student on its roster, whether or not the
\* teacher is still in the teacher set, and nobody else can; so a removed
\* teacher keeps recording scores for their classes until change_teacher
\* or remove_classes takes the class away.
C30_RemovedTeacherKeepsAuthority ==
    /\ \A c \in ClassNames, a \in Accounts, g \in Scores :
           IsSome(classes[c])
               => \A i \in 1..Len(Roster(St, c)) :
                      add_score(St, a, c, Roster(St, c)[i], g).res
                          = IF a = Teacher(St, c) THEN "Ok" ELSE "AccessNotAllowed"
    /\ (/\ last.op = "add_score"
        /\ IsSome(pre.classes[last.class])
        /\ ~Contains(pre.teachers, last.caller))
           => (Ok <=> /\ last.caller = Teacher(pre, last.class)
                      /\ Contains(Roster(pre, last.class), last.id))
\* A teacher removed from the teacher set records a score in their class.
C30_Witness ==
    /\ last.op = "add_score" /\ Ok
    /\ ~Contains(pre.teachers, last.caller)
    /\ last.caller = Teacher(pre, last.class)

\* ------------------------------------------------------- the token's claims
\* The sum of f over the set D of accounts.
RECURSIVE SumOver(_, _)
SumOver(f, D) ==
    IF D = {} THEN 0 ELSE LET x == CHOOSE y \in D : TRUE IN f[x] + SumOver(f, D \ {x})

\* C24: in a build that checks Balance arithmetic, transfer_from(from, to,
\* v) sent by a spender whose allowance from `from` is at least v, `from`
\* holding at least v, returns Ok, moves exactly v from the balance of
\* `from` to the balance of `to` and lowers the spender's allowance by
\* exactly v; sent with an allowance below v it returns
\* InsufficientAllowance and changes no balance and no allowance.
C24_TransferFrom ==
    (last.op = "transfer_from" /\ overflow_checks)
        => LET v == last.value
               a == allowance(pre, last.from, last.caller)
           IN /\ (a >= v /\ balance_of(pre, last.from) >= v)
                     => /\ Ok
                        /\ allowance(erc20, last.from, last.caller) = a - v
                        /\ \A x \in Accounts :
                               balance_of(erc20, x) + (IF x = last.from THEN v ELSE 0)
                                   = balance_of(pre, x) + (IF x = last.to THEN v ELSE 0)
              /\ a < v
                     => /\ result.res = "InsufficientAllowance"
                        /\ erc20.balances = pre.balances
                        /\ erc20.allowances = pre.allowances

\* C25: allowance_to(x) is the sum over the owners of allowance(owner, x)
\* and allowance_from(x) the sum over the spenders of allowance(x, spender):
\* this holds of the fresh contract and every approve and transfer_from
\* keeps it; in particular approve(spender, v) sent to a fresh contract
\* leaves allowance_to(spender) = v and allowance_from(caller) = v.
C25_AllowanceSums ==
    LET Sums(S) ==
            \A x \in Accounts :
                /\ allowance_to(S, x) = SumOver([o \in Accounts |-> allowance(S, o, x)], Accounts)
                /\ allowance_from(S, x) = SumOver([s \in Accounts |-> allowance(S, x, s)], Accounts)
    IN /\ last.op = "new" => Sums(erc20)
       /\ (last.op \in {"approve", "transfer_from"} /\ Sums(pre)) => Sums(erc20)
       /\ (last.op = "approve" /\ pre = Erc20New("alice", pre.total_supply))
              => /\ allowance_to(erc20, last.spender) = last.value
                 /\ allowance_from(erc20, last.caller) = last.value

\* C31: remove_admins(a) sent by an administrator while there are at least
\* two administrators returns Ok also when a is not an administrator, and
\* then leaves every store as it was; remove_admins never returns
\* InvalidInput; and a successful call changes nothing but the
\* administrator set, from which it takes at most the one id a.
C31_RemoveAbsentAdmin ==
    last.op = "remove_admins"
        => /\ result.res \in {"Ok", "AccessNotAllowed"}
           /\ (/\ Contains(pre.admins, last.caller)
               /\ Len(pre.admins) >= 2
               /\ ~Contains(pre.admins, last.id))
                  => Ok /\ St = pre
           /\ Ok => /\ St = [pre EXCEPT !.admins = admins]
                    /\ Len(admins) >= Len(pre.admins) - 1
                    /\ \A i \in 1..Len(pre.admins) :
                           pre.admins[i] # last.id => Contains(admins, pre.admins[i])
\* One of two administrators names an id that is not an administrator.
C31_Witness ==
    /\ last.op = "remove_admins" /\ Ok
    /\ Len(pre.admins) >= 2
    /\ ~Contains(pre.admins, last.id)
    /\ St = pre


====
